---- MODULE Spec2Model ----
(***************************************************************************)
(* Personal Habit Coach: the CSV record store (habit_logs.csv), the logger *)
(* of both variants (habit_coach.py, pers_habit_coach.py), the feedback    *)
(* engine, the chart renderer and the Chroma vector log of the UI variant. *)
(*                                                                         *)
(* Text is a sequence of one-character strings.  A number is counted in    *)
(* tenths (8.5 is 85), so that str(), float() and the .1f format are       *)
(* computed digit by digit and not taken as the identity.                  *)
(***************************************************************************)
EXTENDS Bags, FiniteSets, Integers, Sequences, TLC

VARIABLES today, file, chroma, out, initLines, logs

vars == <<today, file, chroma, out, initLines, logs>>

(***************************************************************************)
(* Bounds                                                                  *)
(***************************************************************************)
\* number of log calls followed in one behaviour
MaxLogs == 2
\* the clock runs from 2024-01-01 to 2024-01-MaxDay
MaxDay == 2

(***************************************************************************)
(* Registry                                                                *)
(***************************************************************************)
SleepTarget == 9
StepsTarget == 8000
WaterTarget == 8

HABITS ==
  [sleep |-> [target |-> SleepTarget, type |-> "float"],
   steps |-> [target |-> StepsTarget, type |-> "int"],
   water |-> [target |-> WaterTarget, type |-> "int"]]

HabitKeys == <<"sleep", "steps", "water">>

FIELDNAMES == <<"date">> \o HabitKeys

\* rows[-7:]
WindowSize == 7

(***************************************************************************)
(* Python values and text                                                  *)
(***************************************************************************)
Digits == <<"0", "1", "2", "3", "4", "5", "6", "7", "8", "9">>

IsDigit(c) == \E i \in 1..10 : Digits[i] = c

DigitChar(n) == Digits[n + 1]

DigitVal(c) == (CHOOSE i \in 1..10 : Digits[i] = c) - 1

\* code points of the characters that occur in the stored text
CodePoint(c) ==
  CASE c = "-" -> 45
    [] c = "." -> 46
    [] IsDigit(c) -> 48 + DigitVal(c)
    [] c = "x" -> 120

\* an int or a float of Python; tenths is ten times its value
PyInt(n) == [type |-> "int", tenths |-> 10 * n]

PyFloatVal(t) == [type |-> "float", tenths |-> t]

RECURSIVE IntStr(_)
\* str(n) of a non-negative int
IntStr(n) ==
  IF n < 10 THEN <<DigitChar(n)>>
  ELSE IntStr(n \div 10) \o <<DigitChar(n % 10)>>

\* str(v): "8000" for an int, "8.5" and "8.0" for a float
PyStr(v) ==
  IF v.type = "int" THEN IntStr(v.tenths \div 10)
  ELSE IntStr(v.tenths \div 10) \o <<".", DigitChar(v.tenths % 10)>>

RECURSIVE DigitsVal(_)
DigitsVal(s) ==
  IF s = <<>> THEN 0
  ELSE 10 * DigitsVal(SubSeq(s, 1, Len(s) - 1)) + DigitVal(s[Len(s)])

\* a field of a DictReader row: a string, or None when the line is short
None == [isNone |-> TRUE, s |-> <<>>]

Str(t) == [isNone |-> FALSE, s |-> t]

Raised == [ok |-> FALSE, tenths |-> 0]

Parsed(t) == [ok |-> TRUE, tenths |-> t]

\* float(x) on a field: TypeError on None, ValueError on text that is not a
\* decimal literal; the stored literals carry at most one fractional digit
PyFloat(x) ==
  IF x.isNone THEN Raised
  ELSE
    LET t == x.s
        dots == {i \in 1..Len(t) : t[i] = "."}
    IN  IF \E i \in 1..Len(t) : ~IsDigit(t[i]) /\ t[i] # "." THEN Raised
        ELSE IF dots = {} THEN
          IF Len(t) = 0 THEN Raised ELSE Parsed(10 * DigitsVal(t))
        ELSE IF Cardinality(dots) > 1 THEN Raised
        ELSE
          LET d == CHOOSE i \in dots : TRUE
              ip == SubSeq(t, 1, d - 1)
              fp == SubSeq(t, d + 1, Len(t))
          IN  IF Len(ip) = 0 /\ Len(fp) = 0 THEN Raised
              ELSE Parsed(10 * DigitsVal(ip)
                          + (IF Len(fp) = 0 THEN 0 ELSE DigitVal(fp[1])))

RECURSIVE StrLess(_, _)
\* a < b on Python strings: code point by code point, a proper prefix is less
StrLess(a, b) ==
  IF b = <<>> THEN FALSE
  ELSE IF a = <<>> THEN TRUE
  ELSE IF a[1] = b[1] THEN StrLess(Tail(a), Tail(b))
  ELSE CodePoint(a[1]) < CodePoint(b[1])

\* dt.date(2024, 1, day).isoformat()
IsoFormat(day) ==
  <<"2", "0", "2", "4", "-", "0", "1", "-">>
    \o <<DigitChar(day \div 10), DigitChar(day % 10)>>

\* round num/den (den > 0, num >= 0) to the nearest integer, ties to even:
\* the rounding of the format spec on a value that is exact in binary
RoundHalfEven(num, den) ==
  LET q == num \div den
      r == num % den
  IN  IF 2 * r < den THEN q
      ELSE IF 2 * r > den THEN q + 1
      ELSE IF q % 2 = 0 THEN q ELSE q + 1

\* f"{num/den:.1f}" where num/den is the value in tenths
Format1f(num, den) ==
  LET t == RoundHalfEven(num, den)
  IN  IntStr(t \div 10) \o <<".", DigitChar(t % 10)>>

(***************************************************************************)
(* Record store                                                            *)
(***************************************************************************)
\* the file is absent, or holds the header and one line of fields per row
AbsentFile == [exists |-> FALSE, lines |-> <<>>]

\* a mutation of EnsureCsvFile: the header is written over the file each time
EnsureCsvFileRewrites(f) == [exists |-> TRUE, lines |-> <<>>]

\* ensure_csv: write the header when the file does not exist
EnsureCsvFile(f) ==
  IF ~f.exists THEN [exists |-> TRUE, lines |-> <<>>] ELSE f

\* DictWriter.writerow: one field per name of FIELDNAMES, each through str()
WriteRow(date, values) ==
  <<date>> \o [i \in 1..Len(HabitKeys) |-> PyStr(values[HabitKeys[i]])]

\* a mutation of AppendRow: a row of the same date is replaced
AppendRowKeyed(f, date, values) ==
  [exists |-> TRUE,
   lines |-> Append(SelectSeq(f.lines, LAMBDA l : l[1] # date),
                    WriteRow(date, values))]

\* open(LOG_FILE, "a") and writerow
AppendRow(f, date, values) ==
  [exists |-> TRUE, lines |-> Append(f.lines, WriteRow(date, values))]

FieldIndex(k) == CHOOSE i \in 1..Len(FIELDNAMES) : FIELDNAMES[i] = k

\* DictReader: fields are matched to FIELDNAMES by position, None fills a
\* short line
ReadRow(line) ==
  [k \in {FIELDNAMES[i] : i \in 1..Len(FIELDNAMES)} |->
     IF FieldIndex(k) <= Len(line) THEN Str(line[FieldIndex(k)]) ELSE None]

ReadRows(lines) == [i \in 1..Len(lines) |-> ReadRow(lines[i])]

RECURSIVE InsertRowFirst(_, _)
\* a mutation of InsertRow: r goes before the rows of its own date
InsertRowFirst(s, r) ==
  IF s = <<>> THEN <<r>>
  ELSE IF ~StrLess(s[1].date.s, r.date.s) THEN <<r>> \o s
  ELSE <<s[1]>> \o InsertRowFirst(Tail(s), r)

RECURSIVE InsertRow(_, _)
\* place r behind every row whose date is not greater: the sort is stable
InsertRow(s, r) ==
  IF s = <<>> THEN <<r>>
  ELSE IF StrLess(r.date.s, s[1].date.s) THEN <<r>> \o s
  ELSE <<s[1]>> \o InsertRow(Tail(s), r)

RECURSIVE SortRows(_)
\* rows.sort(key=lambda r: r["date"])
SortRows(rows) ==
  IF rows = <<>> THEN <<>>
  ELSE InsertRow(SortRows(SubSeq(rows, 1, Len(rows) - 1)), rows[Len(rows)])

\* a mutation of LoadRows: the rows stay in file order
LoadRowsFileOrder(f) == ReadRows(EnsureCsvFile(f).lines)

\* load_rows on the file as ensure_csv leaves it
LoadRows(f) == SortRows(ReadRows(EnsureCsvFile(f).lines))

(***************************************************************************)
(* Feedback engine                                                         *)
(***************************************************************************)
\* rows[-7:]
Last7(rows) ==
  IF Len(rows) <= WindowSize THEN rows
  ELSE SubSeq(rows, Len(rows) - WindowSize + 1, Len(rows))

RECURSIVE CollectValuesZero(_, _)
\* a mutation of CollectValues: a raising field counts as zero
CollectValuesZero(rows, key) ==
  IF rows = <<>> THEN <<>>
  ELSE LET v == PyFloat(rows[1][key])
       IN  <<IF v.ok THEN v.tenths ELSE 0>> \o CollectValuesZero(Tail(rows), key)

RECURSIVE CollectValues(_, _)
\* values.append(float(r[key])) under try/except: a raising field is skipped
CollectValues(rows, key) ==
  IF rows = <<>> THEN <<>>
  ELSE LET v == PyFloat(rows[1][key])
       IN  (IF v.ok THEN <<v.tenths>> ELSE <<>>)
             \o CollectValues(Tail(rows), key)

RECURSIVE SumSeq(_)
SumSeq(s) == IF s = <<>> THEN 0 ELSE s[1] + SumSeq(Tail(s))

GoodJob == <<"Good job!!!">>

TryAdding(text) == <<"Try adding ">> \o text \o <<" more per day.">>

\* a mutation of HabitFeedback: a mean equal to the target is not met
HabitFeedbackStrict(values, target) ==
  IF values = <<>> THEN [kind |-> "no data"]
  ELSE
    LET total == SumSeq(values)
        n == Len(values)
    IN  [kind |-> "avg",
         total |-> total,
         count |-> n,
         avgText |-> Format1f(total, n),
         status |-> IF total > 10 * target * n THEN GoodJob
                    ELSE TryAdding(Format1f(10 * target * n - total, n))]

\* the line of one habit: values holds tenths, avg = total / (10 * n)
HabitFeedback(values, target) ==
  IF values = <<>> THEN [kind |-> "no data"]
  ELSE
    LET total == SumSeq(values)
        n == Len(values)
    IN  [kind |-> "avg",
         total |-> total,
         count |-> n,
         avgText |-> Format1f(total, n),
         status |-> IF total >= 10 * target * n THEN GoodJob
                    ELSE TryAdding(Format1f(10 * target * n - total, n))]

\* a mutation of FeedbackOf: no early return on an empty history
FeedbackOfNoReturn(rows) ==
  LET last7 == Last7(rows)
  IN  [status |-> "Feedback",
       rows |-> rows,
       last7 |-> last7,
       n |-> Len(last7),
       habits |-> [k \in {HabitKeys[i] : i \in 1..Len(HabitKeys)} |->
                     HabitFeedback(CollectValues(last7, k), HABITS[k].target)]]

\* feedback / simple_feedback on the loaded rows
FeedbackOf(rows) ==
  IF rows = <<>> THEN [status |-> "No data yet", rows |-> rows]
  ELSE
    LET last7 == Last7(rows)
    IN  [status |-> "Feedback",
         rows |-> rows,
         last7 |-> last7,
         n |-> Len(last7),
         habits |-> [k \in {HabitKeys[i] : i \in 1..Len(HabitKeys)} |->
                       HabitFeedback(CollectValues(last7, k), HABITS[k].target)]]

(***************************************************************************)
(* Chart renderer                                                          *)
(***************************************************************************)
NoValue == [isNone |-> TRUE, tenths |-> 0]

\* float(r[key]) or None for every row
PlotValues(rows, key) ==
  [i \in 1..Len(rows) |->
     LET v == PyFloat(rows[i][key])
     IN  IF v.ok THEN [isNone |-> FALSE, tenths |-> v.tenths] ELSE NoValue]

RECURSIVE PlotLoopNoBreak(_, _, _, _, _, _)
\* a mutation of PlotLoop: a missing value does not end the line
PlotLoopNoBreak(dates, values, i, xs, ys, plotted) ==
  IF i > Len(values) THEN
    IF xs # <<>> /\ ys # <<>> THEN Append(plotted, [xs |-> xs, ys |-> ys])
    ELSE plotted
  ELSE IF values[i].isNone THEN
    PlotLoopNoBreak(dates, values, i + 1, xs, ys, plotted)
  ELSE
    PlotLoopNoBreak(dates, values, i + 1,
                    Append(xs, dates[i]), Append(ys, values[i].tenths), plotted)

RECURSIVE PlotLoop(_, _, _, _, _, _)
\* the loop over zip(dates, values): plotted collects the plt.plot calls
PlotLoop(dates, values, i, xs, ys, plotted) ==
  IF i > Len(values) THEN
    IF xs # <<>> /\ ys # <<>> THEN Append(plotted, [xs |-> xs, ys |-> ys])
    ELSE plotted
  ELSE IF values[i].isNone THEN
    PlotLoop(dates, values, i + 1, <<>>, <<>>,
             IF xs # <<>> /\ ys # <<>> THEN Append(plotted, [xs |-> xs, ys |-> ys])
             ELSE plotted)
  ELSE
    PlotLoop(dates, values, i + 1,
             Append(xs, dates[i]), Append(ys, values[i].tenths), plotted)

\* plot_progress on the loaded rows: one figure per habit
PlotOf(rows) ==
  IF rows = <<>> THEN [status |-> "No data to plot yet", rows |-> rows]
  ELSE
    LET dates == [i \in 1..Len(rows) |-> rows[i].date.s]
    IN  [status |-> "Plotted",
         rows |-> rows,
         figures |-> [k \in {HabitKeys[i] : i \in 1..Len(HabitKeys)} |->
                        [values |-> PlotValues(rows, k),
                         target |-> HABITS[k].target,
                         segments |-> PlotLoop(dates, PlotValues(rows, k), 1,
                                               <<>>, <<>>, <<>>)]]]

(***************************************************************************)
(* Vector log (UI variant)                                                 *)
(***************************************************************************)
\* str(habit_values) of the dict the form builds
DictRepr(values) ==
  <<"{'sleep': ">> \o PyStr(values.sleep) \o <<", 'steps': ">>
    \o PyStr(values.steps) \o <<", 'water': ">> \o PyStr(values.water)
    \o <<"}">>

\* the text handed to add_texts
Document(date, values) ==
  <<"On ">> \o date \o <<", habits logged: ">> \o DictRepr(values)

\* the position of the entry stored under id
EntryOf(c, id) == CHOOSE i \in 1..Len(c) : c[i].id = id

\* vectordb.add_texts(texts=[text], ids=[id]): Chroma upserts by id, an id
\* that is already in the collection takes the new text
AddTexts(c, id, text) ==
  IF \E i \in 1..Len(c) : c[i].id = id
  THEN [c EXCEPT ![EntryOf(c, id)].document = text]
  ELSE Append(c, [id |-> id, document |-> text])

\* a mutation of LogHabitsRun: add_texts is called without ids=[today], the
\* entry is then stored under an id of its own and not under the date
LogHabitsRunNoIds(f, c, date, values, started, raises) ==
  LET saved == AppendRow(EnsureCsvFile(f), date, values)
  IN  IF started /\ ~raises
      THEN [file |-> saved,
            chroma |-> Append(c, [id |-> <<"uuid">> \o IntStr(Len(c)),
                                  document |-> Document(date, values)]),
            error |-> FALSE]
      ELSE [file |-> saved, chroma |-> c, error |-> TRUE]

\* a mutation of LogHabitsRun: the vector write comes before the CSV write
LogHabitsRunVectorFirst(f, c, date, values, started, raises) ==
  IF started /\ ~raises
  THEN [file |-> AppendRow(EnsureCsvFile(f), date, values),
        chroma |-> AddTexts(c, date, Document(date, values)), error |-> FALSE]
  ELSE [file |-> EnsureCsvFile(f), chroma |-> c, error |-> TRUE]

\* log_habits: started is FALSE when Chroma() raised at import and vectordb
\* is None, raises is TRUE when add_texts raises; the CSV write comes first
LogHabitsRun(f, c, date, values, started, raises) ==
  LET saved == AppendRow(EnsureCsvFile(f), date, values)
  IN  IF started /\ ~raises
      THEN [file |-> saved, chroma |-> AddTexts(c, date, Document(date, values)),
            error |-> FALSE]
      ELSE [file |-> saved, chroma |-> c, error |-> TRUE]

(***************************************************************************)
(* Inputs                                                                  *)
(***************************************************************************)
\* what parse_input returns for the three prompts: float, int, int
CliInputs ==
  {[sleep |-> PyFloatVal(80), steps |-> PyInt(8000), water |-> PyInt(8)],
   [sleep |-> PyFloatVal(85), steps |-> PyInt(7000), water |-> PyInt(9)]}

\* what the form returns: st.number_input with int min_value and step
UiInputs ==
  {[sleep |-> PyInt(9), steps |-> PyInt(9000), water |-> PyInt(8)],
   [sleep |-> PyInt(8), steps |-> PyInt(7500), water |-> PyInt(8)]}

\* "2024-01-5" and "2024-01-10": dates that are not zero padded
Jan5 == <<"2", "0", "2", "4", "-", "0", "1", "-", "5">>

Jan10 == <<"2", "0", "2", "4", "-", "0", "1", "-", "1", "0">>

T(n) == IntStr(n)

\* out of date order, with an empty field, a non-numeric field and a short
\* line; no row has a numeric water field
GapLines ==
  <<<<IsoFormat(2), <<"9", ".", "0">>, <<"x">>, <<>>>>,
    <<IsoFormat(1), <<"8", ".", "5">>>>>>

\* dates as another tool may have written them
UnpaddedLines ==
  <<<<Jan5, <<"7", ".", "5">>, T(7000), T(9)>>,
    <<Jan10, T(8), T(9000), T(8)>>>>

\* seven rows, the window size, in an order that is not the date order
WeekLines ==
  <<<<IsoFormat(2), <<"7", ".", "0">>, T(6000), T(8)>>,
    <<IsoFormat(1), T(6), T(8000), <<>>>>,
    <<IsoFormat(2), <<"x">>, T(9000), T(9)>>,
    <<IsoFormat(1), <<"9", ".", "5">>, <<>>, T(7)>>,
    <<IsoFormat(3), T(10), T(8500), T(8)>>,
    <<IsoFormat(1), <<"8", ".", "0">>, T(7000), T(6)>>,
    <<IsoFormat(2), T(9), <<"x">>, T(10)>>>>

\* one earlier day
DayLines == <<<<IsoFormat(1), T(8), T(8000), T(8)>>>>

\* the file as the session finds it
StoredFiles ==
  {AbsentFile,
   [exists |-> TRUE, lines |-> DayLines],
   [exists |-> TRUE, lines |-> GapLines],
   [exists |-> TRUE, lines |-> UnpaddedLines],
   [exists |-> TRUE, lines |-> WeekLines]}

EmptyCollection == <<>>

(***************************************************************************)
(* State machine                                                           *)
(***************************************************************************)
\* today: day of the system clock; file: habit_logs.csv; chroma: the
\* habit_logs collection, a list of (id, document); out: what the last operation showed; initLines and
\* logs: the rows found at the start and the log calls made since
Init ==
  /\ today = 1
  /\ file \in StoredFiles
  /\ chroma = EmptyCollection
  /\ out = [op |-> "start"]
  /\ initLines = file.lines
  /\ logs = <<>>

\* midnight passes
Tick ==
  /\ today < MaxDay
  /\ today' = today + 1
  /\ UNCHANGED <<file, chroma, out, initLines, logs>>

EnsureCsv ==
  /\ file' = EnsureCsvFile(file)
  /\ out' = [op |-> "ensure_csv"]
  /\ UNCHANGED <<today, chroma, initLines, logs>>

LogToday(values) ==
  /\ Len(logs) < MaxLogs
  /\ file' = AppendRow(EnsureCsvFile(file), IsoFormat(today), values)
  /\ out' = [op |-> "log_today", status |-> "LOG SAVED!"]
  /\ logs' = Append(logs, [variant |-> "cli", date |-> IsoFormat(today),
                           values |-> values, stored |-> FALSE])
  /\ UNCHANGED <<today, chroma, initLines>>

LogHabits(values, started, raises) ==
  /\ Len(logs) < MaxLogs
  /\ LET run == LogHabitsRun(file, chroma, IsoFormat(today), values,
                             started, raises)
     IN  /\ file' = run.file
         /\ chroma' = run.chroma
         /\ out' = [op |-> "log_habits",
                    status |-> IF run.error THEN "uncaught exception"
                               ELSE "Habit logged successfully!"]
         /\ logs' = Append(logs, [variant |-> "ui", date |-> IsoFormat(today),
                                  values |-> values, stored |-> ~run.error])
  /\ UNCHANGED <<today, initLines>>

\* feedback of the menu variant and simple_feedback of the UI variant
Feedback ==
  /\ file' = EnsureCsvFile(file)
  /\ out' = [op |-> "feedback", res |-> FeedbackOf(LoadRows(file))]
  /\ UNCHANGED <<today, chroma, initLines, logs>>

\* plot_progress of either variant
PlotProgress ==
  /\ file' = EnsureCsvFile(file)
  /\ out' = [op |-> "plot_progress", res |-> PlotOf(LoadRows(file))]
  /\ UNCHANGED <<today, chroma, initLines, logs>>

ViewChromaData(started) ==
  /\ out' = IF ~started
            THEN [op |-> "view_chroma_data", status |-> "uncaught exception"]
            ELSE IF chroma = <<>>
            THEN [op |-> "view_chroma_data", status |-> "No data stored yet"]
            ELSE [op |-> "view_chroma_data", status |-> "listed",
                  results |-> chroma]
  /\ UNCHANGED <<today, file, chroma, initLines, logs>>

Next ==
  \/ Tick
  \/ EnsureCsv
  \/ \E values \in CliInputs : LogToday(values)
  \/ \E values \in UiInputs, started \in BOOLEAN, raises \in BOOLEAN :
       LogHabits(values, started, raises)
  \/ Feedback
  \/ PlotProgress
  \/ \E started \in BOOLEAN : ViewChromaData(started)

Spec == Init /\ [][Next]_vars

(***************************************************************************)
(* Properties                                                              *)
(***************************************************************************)
Range(s) == {s[i] : i \in 1..Len(s)}

\* the bag of the elements of a sequence
SeqBag(s) == [x \in Range(s) |-> Cardinality({i \in 1..Len(s) : s[i] = x})]

HabitSet == {HabitKeys[i] : i \in 1..Len(HabitKeys)}

\* a <= b in lexicographic order, stated over positions
LexLeq(a, b) ==
  \/ Len(a) <= Len(b) /\ \A i \in 1..Len(a) : a[i] = b[i]
  \/ \E k \in 1..Len(a) :
       /\ k <= Len(b)
       /\ \A i \in 1..(k - 1) : a[i] = b[i]
       /\ CodePoint(a[k]) < CodePoint(b[k])

\* a loaded row as date and numbers
Decoded(row) ==
  [date |-> row.date.s,
   nums |-> [k \in HabitSet |-> PyFloat(row[k])]]

\* a log call as date and numbers
Logged(l) ==
  [date |-> l.date,
   nums |-> [k \in HabitSet |-> Parsed(l.values[k].tenths)]]

DecodedRows(rows) == [i \in 1..Len(rows) |-> Decoded(rows[i])]

LoggedRows == [i \in 1..Len(logs) |-> Logged(logs[i])]

RECURSIVE SetSum(_, _)
\* the sum of f[i] over the indices in I
SetSum(I, f) ==
  IF I = {} THEN 0
  ELSE LET i == CHOOSE j \in I : TRUE IN f[i] + SetSum(I \ {i}, f)

Abs(x) == IF x < 0 THEN 0 - x ELSE x

\* text is a one-decimal rendering of num/den tenths, rounded to nearest
IsOneDecimalOf(text, num, den) ==
  /\ Len(text) >= 3
  /\ text[Len(text) - 1] = "."
  /\ PyFloat(Str(text)).ok
  /\ 2 * Abs(PyFloat(Str(text)).tenths * den - num) <= den

\* the rows of one date, in the order of the sequence
RowsOfDate(rows, d) == SelectSeq(rows, LAMBDA r : r.date.s = d)

FedBack == out.op = "feedback" /\ out.res.status = "Feedback"

Plotted == out.op = "plot_progress" /\ out.res.status = "Plotted"

\* C1: the store is append-only.  The rows found at the start stay at the
\* head of the file unchanged, every row logged since follows in call order
\* with the logged date and values, load_rows returns every row of the file,
\* and ensure_csv leaves an existing file as it is.
C1_AppendOnly ==
  /\ Len(file.lines) = Len(initLines) + Len(logs)
  /\ SubSeq(file.lines, 1, Len(initLines)) = initLines
  /\ \A i \in 1..Len(logs) :
       Decoded(ReadRow(file.lines[Len(initLines) + i])) = Logged(logs[i])
  /\ SeqBag(LoadRows(file)) = SeqBag(ReadRows(file.lines))
  /\ out.op = "ensure_csv" => file.exists

\* C1 witness: rows were there at the start, two logs followed, then feedback
C1_Witness ==
  /\ initLines # <<>>
  /\ Len(logs) >= 2
  /\ out.op = "feedback"

\* C2: round trip with duplicates retained.  Starting from an empty store,
\* after N log calls load_rows returns exactly N records, and their dates and
\* parsed values are, as a bag, the logged dates and values.
C2_RoundTrip ==
  initLines = <<>> =>
    /\ Len(LoadRows(file)) = Len(logs)
    /\ SeqBag(DecodedRows(LoadRows(file))) = SeqBag(LoggedRows)

\* C2 witness: two logs on the same date into an empty store
C2_Witness ==
  /\ initLines = <<>>
  /\ Len(logs) = 2
  /\ logs[1].date = logs[2].date
  /\ logs[1].values # logs[2].values
  /\ Len(LoadRows(file)) = 2

\* C3 as claimed: the date is a unique key and the last write wins, every
\* row handed to feedback and charts is the last written row of its date.
C3_LastWriteWins ==
  out.op \in {"feedback", "plot_progress"} =>
    \A i \in 1..Len(out.res.rows) :
      LET d == out.res.rows[i].date.s
          written == RowsOfDate(ReadRows(file.lines), d)
      IN  /\ Len(RowsOfDate(out.res.rows, d)) = 1
          /\ out.res.rows[i] = written[Len(written)]

\* C3 as amended: no row is dropped.  For every date the history handed to
\* feedback and charts carries all rows of that date in the order they were
\* written, the last written row last among them.
C3_AllWritesKept ==
  out.op \in {"feedback", "plot_progress"} =>
    \A d \in {out.res.rows[i].date.s : i \in 1..Len(out.res.rows)}
             \cup {file.lines[i][1] : i \in 1..Len(file.lines)} :
      RowsOfDate(out.res.rows, d) = RowsOfDate(ReadRows(file.lines), d)

\* C3 witness: feedback on a history with two different rows of one date
C3_Witness ==
  /\ out.op = "feedback"
  /\ \E i, j \in 1..Len(out.res.rows) :
       /\ i < j
       /\ out.res.rows[i].date = out.res.rows[j].date
       /\ out.res.rows[i] # out.res.rows[j]
  /\ Len(logs) >= 2
  /\ logs[1].date = logs[2].date

\* C4: the list load_rows returns is sorted non-decreasing by the date
\* string, whatever the order in the file, and feedback and plot_progress
\* work on that list: the window is its tail, the plotted points follow it.
C4_Sorted ==
  out.op \in {"feedback", "plot_progress"} =>
    LET rows == out.res.rows
    IN  /\ \A i, j \in 1..Len(rows) :
             i < j => LexLeq(rows[i].date.s, rows[j].date.s)
        /\ SeqBag(rows) = SeqBag(ReadRows(file.lines))
        /\ FedBack =>
             \A i \in 1..Len(out.res.last7) :
               out.res.last7[i]
                 = rows[Len(rows) - Len(out.res.last7) + i]
        /\ Plotted =>
             \A k \in HabitSet :
               /\ Len(out.res.figures[k].values) = Len(rows)
               /\ \A g \in 1..Len(out.res.figures[k].segments) :
                    LET xs == out.res.figures[k].segments[g].xs
                    IN  \A i, j \in 1..Len(xs) : i < j => LexLeq(xs[i], xs[j])

\* C4 witness: a plot of a file whose order is not the date order, holding
\* dates whose string order is not their calendar order
C4_Witness ==
  /\ Plotted
  /\ out.res.rows # ReadRows(file.lines)
  /\ \E i, j \in 1..Len(out.res.rows) :
       i < j /\ out.res.rows[i].date.s = Jan10 /\ out.res.rows[j].date.s = Jan5
  /\ Len(logs) >= 1

\* the window the feedback is to use: the last min(7, N) rows of rows
WindowOf(rows) ==
  LET N == Len(rows)
      w == IF N < WindowSize THEN N ELSE WindowSize
  IN  [i \in 1..w |-> rows[N - w + i]]

\* the positions of the window whose field of habit k is numeric
NumericIn(window, k) == {i \in 1..Len(window) : PyFloat(window[i][k]).ok}

\* C5: on a non-empty history of N rows the window is the last min(7, N)
\* rows of the date-sorted list, and for each habit the mean is the sum of
\* the numeric values of that habit in the window over their count, shown
\* with one decimal; a raising field is left out for that habit only, and a
\* habit without a numeric value in the window gets "no data".
C5_WindowMean ==
  FedBack =>
    LET window == WindowOf(out.res.rows)
    IN  /\ out.res.rows # <<>>
        /\ out.res.last7 = window
        /\ out.res.n = Len(window)
        /\ \A k \in HabitSet :
             LET I == NumericIn(window, k)
                 line == out.res.habits[k]
             IN  IF I = {} THEN line = [kind |-> "no data"]
                 ELSE /\ line.kind = "avg"
                      /\ line.count = Cardinality(I)
                      /\ line.total
                           = SetSum(I, [i \in I |-> PyFloat(window[i][k]).tenths])
                      /\ IsOneDecimalOf(line.avgText, line.total, line.count)

\* C5 witness: more than seven rows, a habit with a raising field in the
\* window and the other habits counted over all seven rows
C5_Witness ==
  /\ FedBack
  /\ Len(out.res.rows) > WindowSize
  /\ \E k \in HabitSet :
       /\ out.res.habits[k].kind = "avg"
       /\ out.res.habits[k].count < out.res.n
  /\ \E k \in HabitSet :
       /\ out.res.habits[k].kind = "avg"
       /\ out.res.habits[k].count = WindowSize

\* the message for window values 8, 8, 9 against target 9
Deficit889 == <<"Try adding ", "0", ".", "7", " more per day.">>

\* C6: a habit with a numeric value in the window gets "Good job!!!" exactly
\* when its mean reaches the target, equality included, and otherwise the
\* deficit message with target minus mean rounded to one decimal; the sleep
\* values 8, 8, 9 against target 9 give "Try adding 0.7 more per day."
C6_Verdict ==
  FedBack =>
    /\ \A k \in HabitSet :
         LET line == out.res.habits[k]
             goal == 10 * HABITS[k].target
         IN  line.kind = "avg" =>
               /\ line.status = GoodJob <=> line.total >= goal * line.count
               /\ line.status # GoodJob =>
                    /\ Len(line.status) >= 5
                    /\ line.status[1] = "Try adding "
                    /\ line.status[Len(line.status)] = " more per day."
                    /\ IsOneDecimalOf(SubSeq(line.status, 2, Len(line.status) - 1),
                                      goal * line.count - line.total, line.count)
    /\ SeqBag([i \in 1..Len(out.res.last7) |-> PyFloat(out.res.last7[i].sleep)])
         = SeqBag(<<Parsed(80), Parsed(80), Parsed(90)>>)
       => out.res.habits.sleep.status = Deficit889

\* C6 witness: sleep 8, 8, 9 in the window, and water met with a mean equal
\* to its target
C6_Witness ==
  /\ FedBack
  /\ out.res.n = 3
  /\ out.res.habits.sleep.kind = "avg"
  /\ out.res.habits.sleep.total = 250
  /\ out.res.habits.sleep.status = Deficit889
  /\ out.res.habits.water.kind = "avg"
  /\ out.res.habits.water.total = 10 * WaterTarget * out.res.habits.water.count
  /\ out.res.habits.water.status = GoodJob

\* C7: with no data row in the store feedback shows "No data yet" and
\* returns: no window, no mean and no verdict, and the store is left with
\* the header and zero data rows.
C7_EmptyHistory ==
  out.op = "feedback" =>
    /\ file.exists
    /\ file.lines = <<>> =>
         /\ out.res.status = "No data yet"
         /\ DOMAIN out.res = {"status", "rows"}
         /\ out.res.rows = <<>>
    /\ out.res.status = "No data yet" => file.lines = <<>>

\* C7 witness: feedback on the absent file
C7_Witness ==
  /\ out.op = "feedback"
  /\ out.res.status = "No data yet"
  /\ initLines = <<>>
  /\ logs = <<>>
  /\ file = [exists |-> TRUE, lines |-> <<>>]

\* the maximal runs of numeric values of habit k in rows, as <<first, last>>
RunsOf(rows, k) ==
  LET N == Len(rows)
      ok(i) == PyFloat(rows[i][k]).ok
  IN  {r \in (1..N) \X (1..N) :
         /\ r[1] <= r[2]
         /\ \A i \in r[1]..r[2] : ok(i)
         /\ r[1] = 1 \/ ~ok(r[1] - 1)
         /\ r[2] = N \/ ~ok(r[2] + 1)}

\* C8: for every habit the segments drawn are exactly the maximal runs of
\* consecutive numeric values in date order, one plt.plot call per run in
\* order of appearance with the dates and values of the run; so no segment
\* spans a missing value, every numeric point is in one segment and no point
\* is drawn for a missing value.
C8_Segments ==
  Plotted =>
    \A k \in HabitSet :
      LET rows == out.res.rows
          runs == RunsOf(rows, k)
          segs == out.res.figures[k].segments
      IN  /\ Len(segs) = Cardinality(runs)
          /\ \A r \in runs :
               LET g == Cardinality({q \in runs : q[1] <= r[1]})
               IN  /\ segs[g].xs
                        = [i \in 1..(r[2] - r[1] + 1) |-> rows[r[1] + i - 1].date.s]
                   /\ segs[g].ys
                        = [i \in 1..(r[2] - r[1] + 1) |->
                             PyFloat(rows[r[1] + i - 1][k]).tenths]

\* C8 witness: a habit with value, missing, value at consecutive rows, drawn
\* as more than one segment
C8_Witness ==
  /\ Plotted
  /\ \E k \in HabitSet :
       /\ \E i \in 1..(Len(out.res.rows) - 2) :
            /\ PyFloat(out.res.rows[i][k]).ok
            /\ ~PyFloat(out.res.rows[i + 1][k]).ok
            /\ PyFloat(out.res.rows[i + 2][k]).ok
       /\ Len(out.res.figures[k].segments) >= 2

\* the log calls whose vector write went through
StoredLogs == {i \in 1..Len(logs) : logs[i].variant = "ui" /\ logs[i].stored}

\* C9: the vector log is keyed by date with upsert semantics.  It holds one
\* entry per distinct date of the log_habits calls that succeeded, the id is
\* the date and the document is the one of the latest such call of that
\* date, while the file holds one row per log call.
C9_Upsert ==
  /\ {chroma[i].id : i \in 1..Len(chroma)} = {logs[i].date : i \in StoredLogs}
  /\ \A i, j \in 1..Len(chroma) : chroma[i].id = chroma[j].id => i = j
  /\ \A e \in 1..Len(chroma) :
       LET last == CHOOSE i \in StoredLogs :
                     /\ logs[i].date = chroma[e].id
                     /\ \A j \in StoredLogs : logs[j].date = chroma[e].id => j <= i
       IN  chroma[e].document = Document(logs[last].date, logs[last].values)
  /\ Len(file.lines) = Len(initLines) + Len(logs)

\* C9 witness: two successful logs of one date with different values
C9_Witness ==
  /\ Len(logs) = 2
  /\ StoredLogs = {1, 2}
  /\ logs[1].date = logs[2].date
  /\ logs[1].values # logs[2].values
  /\ Len(chroma) = 1
  /\ Len(file.lines) = Len(initLines) + 2

\* a step of log_habits
LogHabitsStep == logs' # logs /\ out'.op = "log_habits"

\* C10: log_habits appends to the file before it writes to the vector store
\* and does not roll back.  When the vector write fails, by a raise or on a
\* store that is None, the action ends in an uncaught exception with the new
\* row in the file and the collection as it was; a log on a date that is in
\* the file already adds one more row of that date.
C10_NoRollback ==
  [][LogHabitsStep =>
       /\ Len(file'.lines) = Len(file.lines) + 1
       /\ SubSeq(file'.lines, 1, Len(file.lines)) = file.lines
       /\ Decoded(ReadRow(file'.lines[Len(file'.lines)]))
            = Logged(logs'[Len(logs')])
       /\ file'.lines[Len(file'.lines)][1] = IsoFormat(today)
       /\ out'.status = "uncaught exception" <=> ~logs'[Len(logs')].stored
       /\ out'.status = "uncaught exception" => chroma' = chroma
       /\ out'.status # "uncaught exception" =>
            \E e \in 1..Len(chroma') : chroma'[e].id = IsoFormat(today)]_vars

\* C10 witness: a failed log_habits after a log of the same day, both rows
\* in the file and nothing in the collection
C10_Witness ==
  /\ out.op = "log_habits"
  /\ out.status = "uncaught exception"
  /\ Len(logs) = 2
  /\ ~logs[2].stored
  /\ logs[1].date = logs[2].date
  /\ Len(file.lines) >= 2
  /\ file.lines[Len(file.lines)][1] = file.lines[Len(file.lines) - 1][1]
  /\ chroma = <<>>

====
